---- MODULE Spec2Model ----
(***************************************************************************)
(* A run of the two waveform-video scripts, creator.py (FORWARD window,    *)
(* filled area) and hd_video.py (CENTERED window, line plot): load the     *)
(* audio, decode it to a sample array, downmix (and, in hd_video.py,       *)
(* normalise), create the reusable figure, let the video sink call         *)
(* make_frame(t) at timestamps of its own choosing, then report, handle    *)
(* errors and clean up.                                                    *)
(*                                                                         *)
(* Time is counted in frame ticks: timestamp k stands for t = k/FrameRate  *)
(* seconds.  Sample values are exact rationals: sample i of the mono       *)
(* buffer is mono[i] / den.                                                *)
(***************************************************************************)
EXTENDS Integers, Sequences, FiniteSets, TLC

VARIABLES
    script,         \* which script runs: "creator" or "hd_video"
    pc,             \* position in the script
    audio,          \* the AudioFileClip handle: "none", "open", "closed"
    fig,            \* the matplotlib figure: "none", "open", "closed"
    duration,       \* audio.duration, in frame ticks
    ws,             \* window_size / window_size_samples
    samples,        \* the decoded array: a sequence of <<left, right>>
    mono,           \* numerators of the mono buffer
    den,            \* common denominator of the mono buffer
    preprocessed,   \* how many times the buffer was written
    surface,        \* the state of the reusable Axes
    calls,          \* make_frame invocations so far
    prevT,          \* timestamp of the call before the last one
    written,        \* frames the sink has received
    lastT,          \* timestamp of the last make_frame call
    idx,            \* i / current_sample of the last make_frame call
    lo,             \* first index of the slice taken by the last call
    hi,             \* end index of the slice taken by the last call
    window,         \* the window the last call selected
    frame,          \* what the last call returned
    failure,        \* the step that raised: "none", "load", "decode", ...
    fault,          \* the last make_frame call hit a failure of the canvas
    out,            \* what has been printed
    handlerRaised   \* the except block itself raised

vars == <<script, pc, audio, fig, duration, ws, samples, mono, den,
          preprocessed, surface, calls, written, prevT, lastT, idx, lo,
          hi, window, frame, failure, fault, out, handlerRaised>>

-----------------------------------------------------------------------------
(* Bounds of the model. *)

\* scaled stand-in for the 44100 Hz sample rate
SampleRate == 3
\* scaled stand-in for the 24 frames per second of the output
FrameRate == 2
\* longest recording, in frame ticks
MaxDuration == 3
\* largest window, in samples
MaxWin == 3
\* most make_frame invocations in one run
MaxCalls == 3
\* last frame number looked at under the real rates
MaxFrameNo == 60
\* longest buffer in the study of the window selection alone
MaxLen == 3

(* Program constants. *)
audio_sample_rate == 44100
video_fps == 24
video_width == 1280
video_height == 720
creator_width == 600
creator_height == 200
\* waveform_window_duration = 0.1 = 1/10 s
hd_window_den == 10
\* 0.05 = 1/20 s
creator_window_den == 20

Scripts == {"creator", "hd_video"}
\* <<left, right>> values one decoded sample can take (1 is full scale):
\* full scale on both channels, opposite channels, twice full scale
StereoValues == {<<1, 1>>, <<1, -2>>, <<-2, -2>>}

-----------------------------------------------------------------------------
(* Arithmetic helpers. *)

Min(a, b) == IF a < b THEN a ELSE b
Max(a, b) == IF a > b THEN a ELSE b
Abs(a) == IF a < 0 THEN -a ELSE a

\* round(n / d) for n >= 0, d > 0, ties away from zero
RoundHalfUp(n, d) == (2 * n + d) \div (2 * d)

\* Python's round(n / d) for n >= 0, d > 0: ties to the even integer
RoundHalfEven(n, d) ==
    LET q == n \div d
        r == n % d
    IN  IF 2 * r < d THEN q
        ELSE IF 2 * r > d THEN q + 1
        ELSE IF q % 2 = 0 THEN q ELSE q + 1

-----------------------------------------------------------------------------
(* Index mapping and window selection. *)

\* the mapping with rounding to nearest in place of truncation
SampleIndexRounded(k, fps, rate) == RoundHalfUp(k * rate, fps)

\* int(t * fps) for t = k / fps seconds
SampleIndex(k, fps, rate) == (k * rate) \div fps

\* int(window_duration * fps) for a window of 1/d seconds
WindowSize(rate, d) == rate \div d

\* a Python slice bound a on a sequence of length n
PyIndex(a, n) == IF a < 0 THEN Max(a + n, 0) ELSE Min(a, n)

\* the Python slice s[a:b]
PySlice(s, a, b) ==
    LET from == PyIndex(a, Len(s))
        to == PyIndex(b, Len(s))
    IN  IF from >= to THEN << >> ELSE SubSeq(s, from + 1, to)

\* the two branches taken the wrong way round
ForwardBoundsFlipped(buf, i, w) ==
    IF i + w < Len(buf) THEN <<i, Len(buf)>> ELSE <<i, i + w>>

\* creator.py: mono[i:] or mono[i:i + window_size], as an index pair
ForwardBounds(buf, i, w) ==
    IF i + w >= Len(buf) THEN <<i, Len(buf)>> ELSE <<i, i + w>>

\* the centred pair without the clamp of start to 0
CenteredBoundsUnclamped(buf, c, w) ==
    <<c - w \div 2, Min(Len(buf), c + w \div 2)>>

\* hd_video.py: start and end around current_sample
CenteredBounds(buf, c, w) ==
    <<Max(0, c - w \div 2), Min(Len(buf), c + w \div 2)>>

SliceBounds(s, buf, c, w) ==
    IF s = "creator" THEN ForwardBounds(buf, c, w) ELSE CenteredBounds(buf, c, w)

-----------------------------------------------------------------------------
(* Preprocessing. *)

\* samples.mean(axis=1): sample i is (left + right) / 2
Downmix(arr) == [i \in 1..Len(arr) |-> arr[i][1] + arr[i][2]]

\* np.max(np.abs(mono_samples)), as a numerator
Peak(buf) == CHOOSE m \in {Abs(buf[i]) : i \in 1..Len(buf)} :
                 \A j \in 1..Len(buf) : Abs(buf[j]) <= m

\* the denominator after "if max_abs_sample > 1.0: mono_samples /= max_abs_sample"
NormalizedDen(buf, d) == IF Peak(buf) > d THEN Peak(buf) ELSE d

\* creator.py leaves the buffer as downmixed
PreprocessedDen(s, buf, d) == IF s = "hd_video" THEN NormalizedDen(buf, d) ELSE d

-----------------------------------------------------------------------------
(* The reusable drawing surface. *)

NoSurface ==
    [artists |-> << >>, axison |-> FALSE, xlim |-> "none", ylim |-> "none",
     facecolor |-> "none"]

NoFrame ==
    [height |-> 0, width |-> 0, artists |-> << >>, axison |-> FALSE,
     xlim |-> "none", ylim |-> "none", facecolor |-> "none"]

\* a clear that forgets to drop what the previous frame drew
ClearAxesKeepingArtists(s) ==
    [s EXCEPT !.axison = TRUE, !.xlim = "auto", !.ylim = "auto"]

\* ax.clear(): artists dropped, limits back to autoscale, axis switched on,
\* the face colour set by set_facecolor kept
ClearAxes(s) ==
    [s EXCEPT !.artists = << >>, !.axison = TRUE, !.xlim = "auto",
              !.ylim = "auto"]

SetAxisOff(s) == [s EXCEPT !.axison = FALSE]
SetYlim(s) == [s EXCEPT !.ylim = "-1..1"]
SetXlim(s) == [s EXCEPT !.xlim = "0..1"]

\* np.linspace(0, 1, n): n abscissae, point j at (j - 1) / (n - 1)
Linspace(n) == [j \in 1..n |-> j - 1]

\* abscissae for the nominal window size instead of the window taken
XCoordsNominal(win) == Linspace(ws)

\* np.linspace(0, 1, len(window))
XCoords(win) == Linspace(Len(win))

\* ax.fill_between(x, window, color="black")
FillBetween(s, x, ys, d) ==
    [s EXCEPT !.artists = Append(@, [kind |-> "fill", x |-> x, y |-> ys,
                                      den |-> d, color |-> "black"])]

\* ax.plot(x, window, color=waveform_color, lw=line_width)
Plot(s, x, ys, d) ==
    [s EXCEPT !.artists = Append(@, [kind |-> "line", x |-> x, y |-> ys,
                                      den |-> d, color |-> "#4682B4"])]

\* the Axes as the script leaves it before the first frame
SetupSurface(sc) ==
    LET fresh == [artists |-> << >>, axison |-> TRUE, xlim |-> "auto",
                  ylim |-> "auto", facecolor |-> "white"]
    IN  IF sc = "creator" THEN fresh
        ELSE SetXlim(SetYlim(SetAxisOff([fresh EXCEPT !.facecolor = "#1E1E1E"])))

\* fill_between and plot raise when x and y differ in length
DrawRaises(sc, win) ==
    /\ sc = "creator" \/ Len(win) > 0
    /\ Len(XCoords(win)) # Len(win)

\* the drawing calls, prevT of make_frame on the surface s, for the window win
Render(sc, s, win, d) ==
    IF DrawRaises(sc, win) THEN ClearAxes(s)
    ELSE IF sc = "creator"
    THEN SetYlim(SetAxisOff(FillBetween(ClearAxes(s), XCoords(win), win, d)))
    ELSE LET cleared == ClearAxes(s)
             drawn == IF Len(win) > 0 THEN Plot(cleared, XCoords(win), win, d)
                      ELSE cleared
         IN  SetXlim(SetYlim(drawn))

\* fig.canvas.draw() and np.array(fig.canvas.renderer.buffer_rgba())[..., :3]
Snapshot(sc, s) ==
    [height |-> IF sc = "creator" THEN creator_height ELSE video_height,
     width |-> IF sc = "creator" THEN creator_width ELSE video_width,
     artists |-> s.artists, axison |-> s.axison, xlim |-> s.xlim,
     ylim |-> s.ylim, facecolor |-> s.facecolor]

\* the window make_frame selects at timestamp k
WindowAt(sc, buf, k, w) ==
    LET b == SliceBounds(sc, buf, SampleIndex(k, FrameRate, SampleRate), w)
    IN  PySlice(buf, b[1], b[2])

-----------------------------------------------------------------------------
(* The run. *)

\* lengths the decoded array can have for a recording of d ticks:
\* duration * sample rate, truncated or rounded
BufferLengths(d) ==
    {(d * SampleRate) \div FrameRate, RoundHalfUp(d * SampleRate, FrameRate)} \ {0}

\* nothing loaded, drawn, requested or printed yet
Idle ==
    /\ audio = "none"
    /\ fig = "none"
    /\ duration = 0
    /\ samples = << >>
    /\ den = 1
    /\ preprocessed = 0
    /\ surface = NoSurface
    /\ calls = 0
    /\ written = 0
    /\ prevT = 0
    /\ lastT = 0
    /\ idx = 0
    /\ lo = 0
    /\ hi = 0
    /\ window = << >>
    /\ frame = NoFrame
    /\ failure = "none"
    /\ fault = FALSE
    /\ out = {}
    /\ handlerRaised = FALSE

\* the window size is configuration; both scripts configure thousands of
\* samples, the model at least 2
Init ==
    /\ script \in Scripts
    /\ ws \in 2..MaxWin
    /\ pc = "load"
    /\ mono = << >>
    /\ Idle

\* audio = AudioFileClip(audio_path)
Load ==
    /\ pc = "load"
    /\ \E d \in 1..MaxDuration : duration' = d
    /\ audio' = "open"
    /\ pc' = "decode"
    /\ UNCHANGED <<script, fig, ws, samples, mono, den, preprocessed, surface,
                   calls, prevT, written, lastT, idx, lo, hi, window, frame, failure,
                   fault, out, handlerRaised>>

\* AudioFileClip raises
LoadFail ==
    /\ pc = "load"
    /\ failure' = "load"
    /\ pc' = "except"
    /\ UNCHANGED <<script, audio, fig, duration, ws, samples, mono, den,
                   preprocessed, surface, calls, prevT, written, lastT, idx, lo, hi,
                   window, frame, fault, out, handlerRaised>>

\* samples = audio.to_soundarray(fps=...)
Decode ==
    /\ pc = "decode"
    /\ \E n \in BufferLengths(duration) :
         \E arr \in [1..n -> StereoValues] : samples' = arr
    /\ pc' = "preprocess"
    /\ UNCHANGED <<script, audio, fig, duration, ws, mono, den, preprocessed,
                   surface, calls, prevT, written, lastT, idx, lo, hi, window, frame,
                   failure, fault, out, handlerRaised>>

\* to_soundarray raises
DecodeFail ==
    /\ pc = "decode"
    /\ failure' = "decode"
    /\ pc' = "except"
    /\ UNCHANGED <<script, audio, fig, duration, ws, samples, mono, den,
                   preprocessed, surface, calls, prevT, written, lastT, idx, lo, hi,
                   window, frame, fault, out, handlerRaised>>

\* downmix, and in hd_video.py the peak normalisation
Preprocess ==
    /\ pc = "preprocess"
    /\ mono' = Downmix(samples)
    /\ den' = PreprocessedDen(script, Downmix(samples), 2)
    /\ preprocessed' = preprocessed + 1
    /\ pc' = "figure"
    /\ UNCHANGED <<script, audio, fig, duration, ws, samples, surface, calls, prevT,
                   written, lastT, idx, lo, hi, window, frame, failure, fault, out,
                   handlerRaised>>

\* fig, ax = plt.subplots(...) and the set-up of the Axes
Figure ==
    /\ pc = "figure"
    /\ fig' = "open"
    /\ surface' = SetupSurface(script)
    /\ pc' = "render"
    /\ UNCHANGED <<script, audio, duration, ws, samples, mono, den,
                   preprocessed, calls, prevT, written, lastT, idx, lo, hi, window, frame,
                   failure, fault, out, handlerRaised>>

\* the video sink asks for the frame at timestamp k; make_frame returns it,
\* or raises where one of its drawing calls, prevT raises
MakeFrame ==
    /\ pc = "render"
    /\ calls < MaxCalls
    /\ \E k \in 0..duration :
         LET c == SampleIndex(k, FrameRate, SampleRate)
             b == SliceBounds(script, mono, c, ws)
             win == PySlice(mono, b[1], b[2])
             drawn == Render(script, surface, win, den)
         IN  /\ lastT' = k
             /\ idx' = c
             /\ lo' = b[1]
             /\ hi' = b[2]
             /\ window' = win
             /\ surface' = drawn
             /\ IF DrawRaises(script, win)
                THEN /\ frame' = NoFrame
                     /\ failure' = "render"
                     /\ pc' = "except"
                     /\ written' = written
                ELSE /\ frame' = Snapshot(script, drawn)
                     /\ failure' = failure
                     /\ pc' = pc
                     /\ written' = written + 1
    /\ calls' = calls + 1
    /\ prevT' = lastT
    /\ fault' = FALSE
    /\ UNCHANGED <<script, audio, fig, duration, ws, samples, mono, den,
                   preprocessed, out, handlerRaised>>

\* a make_frame call that handles its failure and hands back an empty frame
MakeFrameFaultSwallowed ==
    /\ pc = "render"
    /\ calls < MaxCalls
    /\ \E k \in 0..duration :
         LET c == SampleIndex(k, FrameRate, SampleRate)
             b == SliceBounds(script, mono, c, ws)
             win == PySlice(mono, b[1], b[2])
         IN  /\ lastT' = k
             /\ idx' = c
             /\ lo' = b[1]
             /\ hi' = b[2]
             /\ window' = win
             /\ surface' = Render(script, surface, win, den)
    /\ frame' = NoFrame
    /\ failure' = "render"
    /\ fault' = TRUE
    /\ calls' = calls + 1
    /\ prevT' = lastT
    /\ written' = written + 1
    /\ UNCHANGED <<script, pc, audio, fig, duration, ws, samples, mono, den,
                   preprocessed, out, handlerRaised>>

\* a make_frame call in which fig.canvas.draw() or the read of the canvas
\* raises: the exception leaves make_frame and write_videofile
MakeFrameFault ==
    /\ pc = "render"
    /\ calls < MaxCalls
    /\ \E k \in 0..duration :
         LET c == SampleIndex(k, FrameRate, SampleRate)
             b == SliceBounds(script, mono, c, ws)
             win == PySlice(mono, b[1], b[2])
         IN  /\ lastT' = k
             /\ idx' = c
             /\ lo' = b[1]
             /\ hi' = b[2]
             /\ window' = win
             /\ surface' = Render(script, surface, win, den)
    /\ frame' = NoFrame
    /\ failure' = "render"
    /\ fault' = TRUE
    /\ calls' = calls + 1
    /\ prevT' = lastT
    /\ pc' = "except"
    /\ UNCHANGED <<script, audio, fig, duration, ws, samples, mono, den,
                   preprocessed, written, out, handlerRaised>>

\* animation.write_videofile(...) returns
EncodeDone ==
    /\ pc = "render"
    /\ pc' = "saved"
    /\ UNCHANGED <<script, audio, fig, duration, ws, samples, mono, den,
                   preprocessed, surface, calls, prevT, written, lastT, idx, lo, hi,
                   window, frame, failure, fault, out, handlerRaised>>

\* the encoder or the write of the file raises
EncodeFail ==
    /\ pc = "render"
    /\ failure' = "encode"
    /\ pc' = "except"
    /\ UNCHANGED <<script, audio, fig, duration, ws, samples, mono, den,
                   preprocessed, surface, calls, prevT, written, lastT, idx, lo, hi,
                   window, frame, fault, out, handlerRaised>>

\* print(f"Video saved to {output_file}")
Saved ==
    /\ pc = "saved"
    /\ out' = out \cup {"saved"}
    /\ pc' = IF script = "creator" THEN "cleanup" ELSE "finally"
    /\ UNCHANGED <<script, audio, fig, duration, ws, samples, mono, den,
                   preprocessed, surface, calls, prevT, written, lastT, idx, lo, hi,
                   window, frame, failure, fault, handlerRaised>>

\* creator.py, end of the try block: plt.close(fig); audio.close()
Cleanup ==
    /\ pc = "cleanup"
    /\ fig' = "closed"
    /\ audio' = "closed"
    /\ pc' = "exit"
    /\ UNCHANGED <<script, duration, ws, samples, mono, den, preprocessed,
                   surface, calls, prevT, written, lastT, idx, lo, hi, window, frame,
                   failure, fault, out, handlerRaised>>

\* creator.py: print the error, import traceback, traceback.print_exc()
ExceptCreator ==
    /\ pc = "except"
    /\ script = "creator"
    /\ out' = out \cup {"error", "traceback"}
    /\ pc' = "exit"
    /\ UNCHANGED <<script, audio, fig, duration, ws, samples, mono, den,
                   preprocessed, surface, calls, prevT, written, lastT, idx, lo, hi,
                   window, frame, failure, fault, handlerRaised>>

\* hd_video.py: print the error; traceback is not imported, so
\* traceback.print_exc() raises NameError and control goes to finally
ExceptHd ==
    /\ pc = "except"
    /\ script = "hd_video"
    /\ out' = out \cup {"error"}
    /\ handlerRaised' = TRUE
    /\ pc' = "finally"
    /\ UNCHANGED <<script, audio, fig, duration, ws, samples, mono, den,
                   preprocessed, surface, calls, prevT, written, lastT, idx, lo, hi,
                   window, frame, failure, fault>>

\* hd_video.py: plt.close('all'); if 'audio' in locals(): audio.close()
Finally ==
    /\ pc = "finally"
    /\ fig' = IF fig = "open" THEN "closed" ELSE fig
    /\ audio' = IF audio = "none" THEN "none" ELSE "closed"
    /\ pc' = "exit"
    /\ UNCHANGED <<script, duration, ws, samples, mono, den, preprocessed,
                   surface, calls, prevT, written, lastT, idx, lo, hi, window, frame,
                   failure, fault, out, handlerRaised>>

Next ==
    \/ Load
    \/ LoadFail
    \/ Decode
    \/ DecodeFail
    \/ Preprocess
    \/ Figure
    \/ MakeFrame
    \/ MakeFrameFault
    \/ EncodeDone
    \/ EncodeFail
    \/ Saved
    \/ Cleanup
    \/ ExceptCreator
    \/ ExceptHd
    \/ Finally

Spec == Init /\ [][Next]_vars

-----------------------------------------------------------------------------
(* The index mapping at the rates the scripts configure: frame number k   *)
(* is the timestamp k / video_fps of a 24 fps export of 44100 Hz audio.   *)

\* denominator of the window duration: 0.05 s and 0.1 s
WindowDen(sc) == IF sc = "creator" THEN creator_window_den ELSE hd_window_den

InitRate ==
    /\ script \in Scripts
    /\ ws = WindowSize(audio_sample_rate, WindowDen(script))
    /\ pc = "rate"
    /\ mono = << >>
    /\ Idle

\* the first two statements of make_frame at frame number k
IndexAt ==
    /\ pc = "rate"
    /\ \E k \in 0..MaxFrameNo :
         /\ lastT' = k
         /\ idx' = SampleIndex(k, video_fps, audio_sample_rate)
    /\ calls' = 1
    /\ UNCHANGED <<script, pc, audio, fig, duration, ws, samples, mono, den,
                   preprocessed, surface, written, prevT, lo, hi, window,
                   frame, failure, fault, out, handlerRaised>>

NextRate == IndexAt

SpecRate == InitRate /\ [][NextRate]_vars

-----------------------------------------------------------------------------
(* Window selection as a function of the start index, the buffer and the  *)
(* window size, for any index, also one past the end of the buffer.       *)

WindowBuffers == UNION {[1..n -> {-1, 1}] : n \in 1..MaxLen}

InitWindow ==
    /\ script \in Scripts
    /\ ws \in 1..MaxWin
    /\ pc = "window"
    /\ mono \in WindowBuffers
    /\ Idle

\* the slice make_frame takes for the index i
SelectWindow ==
    /\ pc = "window"
    /\ \E i \in 0..(2 * MaxLen) :
         LET b == SliceBounds(script, mono, i, ws)
         IN  /\ idx' = i
             /\ lo' = b[1]
             /\ hi' = b[2]
             /\ window' = PySlice(mono, b[1], b[2])
    /\ calls' = 1
    /\ UNCHANGED <<script, pc, audio, fig, duration, ws, samples, mono, den,
                   preprocessed, surface, written, prevT, lastT, frame,
                   failure, fault, out, handlerRaised>>

NextWindow == SelectWindow

SpecWindow == InitWindow /\ [][NextWindow]_vars

-----------------------------------------------------------------------------
(* Properties. *)

\* the frame a first call of make_frame returns for timestamp k
FirstCallFrame(k) ==
    Snapshot(script,
             Render(script, SetupSurface(script), WindowAt(script, mono, k, ws), den))

\* C1: whenever make_frame has sliced the buffer for a timestamp in
\* [0, duration], under either policy, the index pair it used satisfies
\* 0 <= start <= end <= len(buffer); no negative index is used.
C1_SliceIndicesInBounds ==
    calls > 0 => 0 <= lo /\ lo <= hi /\ hi <= Len(mono)

\* C1 witness: hd_video.py at t = 0, where current_sample minus the half
\* window is negative and start is clamped to 0.
C1_Witness ==
    /\ script = "hd_video"
    /\ calls > 0
    /\ lastT = 0
    /\ idx - ws \div 2 < 0
    /\ lo = 0
    /\ hi > 0
    /\ frame # NoFrame

\* C2: whatever calls came before, out of order or repeated, the frame
\* make_frame returns for a timestamp is the frame a first call returns
\* for it: the window drawn, the limits, the axis visibility, the
\* background.
C2_FrameIndependentOfHistory ==
    (calls > 0 /\ frame # NoFrame) => frame = FirstCallFrame(lastT)

\* C2 witness: a frame returned for a timestamp earlier than that of the
\* call before it, which drew another, non-empty window.
C2_Witness ==
    /\ calls >= 2
    /\ prevT > lastT
    /\ frame # NoFrame
    /\ window # << >>
    /\ window # WindowAt(script, mono, prevT, ws)
    /\ WindowAt(script, mono, prevT, ws) # << >>

\* C3: when a run that opened the audio ends, by success or by failure,
\* the audio handle is closed and no figure is left open.
C3_ResourcesReleasedOnExit ==
    (pc = "exit" /\ audio # "none") => (audio = "closed" /\ fig # "open")

\* C4: once a make_frame call has raised, the run is over: no further
\* frame is requested, none is delivered in its place, the encoding does
\* not complete and "Video saved" is not printed.
C4_RenderFailureIsFatal ==
    /\ [](failure = "render" =>
            /\ pc \in {"except", "finally", "exit"}
            /\ frame = NoFrame
            /\ written = calls - 1
            /\ "saved" \notin out)
    /\ [][failure = "render" =>
            /\ calls' = calls
            /\ written' = written
            /\ frame' = frame
            /\ failure' = failure]_vars

\* C4 witness: the run has ended after a make_frame call that raised, which
\* followed a call that returned its frame.
C4_Witness ==
    /\ failure = "render"
    /\ pc = "exit"
    /\ calls >= 2
    /\ written = calls - 1

\* C5: when a failure has ended a run, the handler has printed the error
\* message and the traceback, and has not itself raised.
C5_HandlerSurfacesCause ==
    (pc = "exit" /\ failure # "none") =>
        ("error" \in out /\ "traceback" \in out /\ ~handlerRaised)

\* C6: a make_frame call whose window is empty does not raise because of
\* it and returns a frame of the configured size that shows background
\* only: no sample drawn, no axis.
C6_EmptyWindowBlankFrame ==
    (calls > 0 /\ pc # "window" /\ window = << >> /\ ~fault) =>
        /\ failure # "render"
        /\ frame.height = (IF script = "creator" THEN creator_height ELSE video_height)
        /\ frame.width = (IF script = "creator" THEN creator_width ELSE video_width)
        /\ \A a \in 1..Len(frame.artists) : frame.artists[a].y = << >>
        /\ ~frame.axison
        /\ frame.ylim = "-1..1"

\* C6 witness: creator.py at t = duration, where i = len(mono): the frame
\* returned for the empty window.
C6_Witness ==
    /\ script = "creator"
    /\ calls > 0
    /\ lastT = duration
    /\ idx = Len(mono)
    /\ window = << >>
    /\ frame # NoFrame
    /\ pc = "render"

\* windowSamples as the claim states it: round(windowDuration * sampleRate)
RoundedWindowSize == RoundHalfUp(audio_sample_rate, WindowDen(script))

\* C7, as amended: at frame number k of a 24 fps export of 44100 Hz audio
\* the index is the floor of t * sampleRate, that is
\* idx <= k * 44100 / 24 < idx + 1, and the window size is
\* round(windowDuration * sampleRate).
C7_IndexIsTruncation ==
    (pc = "rate" /\ calls > 0) =>
        /\ idx * video_fps <= lastT * audio_sample_rate
        /\ lastT * audio_sample_rate < (idx + 1) * video_fps
        /\ ws = RoundedWindowSize

\* C7 witness: a frame whose t * sampleRate has fractional part 1/2.
C7_Witness ==
    /\ pc = "rate"
    /\ calls > 0
    /\ 2 * ((lastT * audio_sample_rate) % video_fps) = video_fps
    /\ idx = 5512

\* C7, as claimed: the index is round(t * sampleRate), under ties away from
\* zero or ties to even, and the window size is round(windowDuration *
\* sampleRate).
C7_IndexIsRounding ==
    (pc = "rate" /\ calls > 0) =>
        /\ idx \in {RoundHalfUp(lastT * audio_sample_rate, video_fps),
                    RoundHalfEven(lastT * audio_sample_rate, video_fps)}
        /\ ws = RoundedWindowSize

\* C8: under the FORWARD policy, for every index i >= 0 and every buffer,
\* the window is buffer[i : min(len(buffer), i + windowSamples)]: the
\* samples i+1 .. min(len, i + windowSamples) in order, none when
\* i >= len(buffer); it is no longer than the remainder of the buffer.
C8_ForwardWindowIsClampedSlice ==
    (pc = "window" /\ calls > 0 /\ script = "creator") =>
        LET end == Min(Len(mono), idx + ws)
            n == IF end > idx THEN end - idx ELSE 0
        IN  /\ window = [j \in 1..n |-> mono[idx + j]]
            /\ Len(window) <= Max(Len(mono) - idx, 0)

\* C8 witness: an index past the end of the buffer, with the empty window.
C8_Witness ==
    /\ pc = "window"
    /\ script = "creator"
    /\ calls > 0
    /\ idx > Len(mono)
    /\ window = << >>

\* C9: under either policy the window has exactly windowSamples samples
\* unless the nominal window reaches over a buffer boundary; it is never
\* longer.
C9_WindowHasNominalSize ==
    (calls > 0 /\ pc # "rate") =>
        /\ Len(window) <= ws
        /\ Len(window) < ws =>
             IF script = "creator" THEN idx + ws > Len(mono)
             ELSE 2 * idx < ws \/ 2 * idx + ws > 2 * Len(mono)

\* C10: when make_frame is called the buffer has been preprocessed exactly
\* once and every sample lies in [-1, 1]; where the decoded peak exceeded
\* 1.0 the peak is now exactly 1.0.
C10_BufferNormalizedBeforeFrames ==
    (calls > 0 /\ pc \notin {"rate", "window"}) =>
        /\ preprocessed = 1
        /\ mono = Downmix(samples)
        /\ \A i \in 1..Len(mono) : Abs(mono[i]) <= den
        /\ (\E i \in 1..Len(mono) : Abs(mono[i]) > 2) =>
               (\E i \in 1..Len(mono) : Abs(mono[i]) = den)

====
